---- MODULE Spec2Model ----
(***************************************************************************)
(* Model of the candidate-analysis pipeline: find_top_engineers.py (the    *)
(* discovery driver, the report router, the processed ledger and the       *)
(* shortlist projection) and analyze_candidate.py (evidence collection and *)
(* the LLM call).                                                          *)
(*                                                                         *)
(* Text is modelled character by character: a Python str is a sequence of  *)
(* one-character strings, so that substring tests, lower(), strip() and    *)
(* the regular expressions of the source are computed, not assumed.        *)
(* A pathlib.Path is a sequence of segments, each segment a str.           *)
(* An Optional value is None (the empty tuple) or Some(x) (a 1-tuple).     *)
(***************************************************************************)
EXTENDS Integers, Sequences, FiniteSets, TLC

\* ------------------------------------------------------------------ bounds
\* Number of times the program is started (each start is a new process).
MaxRuns == 2
\* Number of stargazers the influencer repositories yield over all runs.
MaxOffers == 2
\* Number of days the wall clock may advance over the whole behaviour.
MaxTicks == 1
\* The wall-clock day at which the first run starts.
StartDay == 100

\* ------------------------------------------------------- program constants
CUTOFF_DAYS == 90

\* ------------------------------------------------------------- Optional
None == <<>>
Some(x) == <<x>>
IsNone(o) == o = <<>>
Val(o) == o[1]

\* ----------------------------------------------------------------- text
NL == "\n"
Whitespace == {" ", NL, "\t"}

UpperCase == <<"A","B","C","D","E","F","G","H","I","J","K","L","M",
               "N","O","P","Q","R","S","T","U","V","W","X","Y","Z">>
LowerCase == <<"a","b","c","d","e","f","g","h","i","j","k","l","m",
               "n","o","p","q","r","s","t","u","v","w","x","y","z">>

\* str.lower() on one character
LowerChar(c) ==
  IF \E i \in 1..26 : UpperCase[i] = c
    THEN LowerCase[CHOOSE i \in 1..26 : UpperCase[i] = c]
    ELSE c

\* str.upper() on one character
UpperChar(c) ==
  IF \E i \in 1..26 : LowerCase[i] = c
    THEN UpperCase[CHOOSE i \in 1..26 : LowerCase[i] = c]
    ELSE c

\* str.lower()
Lower(s) == [i \in 1..Len(s) |-> LowerChar(s[i])]

\* str.upper()
Upper(s) == [i \in 1..Len(s) |-> UpperChar(s[i])]

\* p occurs in s starting at index i
MatchAt(p, s, i) ==
  /\ i >= 1
  /\ i + Len(p) - 1 <= Len(s)
  /\ \A k \in 1..Len(p) : s[i + k - 1] = p[k]

\* the indices at which p occurs in s
Occurrences(p, s) == {i \in 1..(Len(s) - Len(p) + 1) : MatchAt(p, s, i)}

\* Python's `p in s` on strings
Contains(s, p) == Occurrences(p, s) # {}

\* str.strip(): leading and trailing whitespace removed
Strip(s) ==
  LET keep == {i \in 1..Len(s) : s[i] \notin Whitespace}
  IN IF keep = {} THEN <<>>
     ELSE LET lo == CHOOSE i \in keep : \A j \in keep : i <= j
              hi == CHOOSE i \in keep : \A j \in keep : i >= j
          IN SubSeq(s, lo, hi)

\* str.rstrip(c): trailing occurrences of the character c removed
RStrip(s, c) ==
  LET keep == {i \in 1..Len(s) : s[i] # c}
  IN IF keep = {} THEN <<>>
     ELSE SubSeq(s, 1, CHOOSE i \in keep : \A j \in keep : i >= j)

\* str.split(c)[-1]: what follows the last occurrence of c
LastField(s, c) ==
  LET at == {i \in 1..Len(s) : s[i] = c}
  IN IF at = {} THEN s
     ELSE SubSeq(s, (CHOOSE i \in at : \A j \in at : i >= j) + 1, Len(s))

\* the lines of a text file, as iterating the file yields them (each line
\* keeps its newline; a last line without newline is yielded too)
RECURSIVE FileLines(_)
FileLines(s) ==
  IF s = <<>> THEN <<>>
  ELSE LET at == {i \in 1..Len(s) : s[i] = NL}
       IN IF at = {} THEN <<s>>
          ELSE LET n == CHOOSE i \in at : \A j \in at : i <= j
               IN <<SubSeq(s, 1, n)>> \o FileLines(SubSeq(s, n + 1, Len(s)))

\* The capture of  LABEL\s*([^\n]+)  tried with LABEL ending at index e
\* (e is the index of the label's last character): \s* is greedy and gives
\* characters back until [^\n]+ finds a character that is no newline; the
\* capture then runs to the next newline or to the end of the text.
CaptureAfter(s, e) ==
  LET ws == {j \in 0..(Len(s) - e) : \A k \in 1..j : s[e + k] \in Whitespace}
      ok == {j \in ws : e + j + 1 <= Len(s) /\ s[e + j + 1] # NL}
  IN IF ok = {} THEN None
     ELSE LET j     == CHOOSE x \in ok : \A y \in ok : x >= y
              first == e + j + 1
              stops == {i \in first..Len(s) : s[i] = NL}
              last  == IF stops = {} THEN Len(s)
                       ELSE (CHOOSE x \in stops : \A y \in stops : x <= y) - 1
          IN Some(SubSeq(s, first, last))

\* re.search(LABEL + r'\s*([^\n]+)', s): group(1) of the leftmost match, or
\* None when nothing matches
ReSearchLabel(label, s) ==
  LET hits == {i \in Occurrences(label, s) :
                 ~IsNone(CaptureAfter(s, i + Len(label) - 1))}
  IN IF hits = {} THEN None
     ELSE CaptureAfter(s, (CHOOSE i \in hits : \A j \in hits : i <= j)
                            + Len(label) - 1)

\* ------------------------------------------------------------- literals
S_candidates == <<"c","a","n","d","i","d","a","t","e","s">>
S_report_md == <<"r","e","p","o","r","t",".","m","d">>
S_shortlist == <<"s","h","o","r","t","l","i","s","t">>
S_strongly_shortlist == <<"s","t","r","o","n","g","l","y","_","s","h","o","r","t","l","i","s","t">>
S_reject == <<"r","e","j","e","c","t">>
T_strongly_shortlist == <<"s","t","r","o","n","g","l","y"," ","s","h","o","r","t","l","i","s","t">>
T_shortlist == <<"s","h","o","r","t","l","i","s","t">>
GitHubBase == <<"h","t","t","p","s",":","/","/","g","i","t","h","u","b",".","c","o","m","/">>
L_Recommendation == <<"*","*","R","e","c","o","m","m","e","n","d","a","t","i","o","n",":","*","*">>
L_Name == <<"*","*","N","a","m","e",":","*","*">>
L_Location == <<"*","*","L","o","c","a","t","i","o","n",":","*","*">>
L_LinkedIn == <<"*","*","L","i","n","k","e","d","I","n",":","*","*">>
L_GitHub == <<"*","*","G","i","t","H","u","b",":","*","*">>
D_Unknown == <<"U","n","k","n","o","w","n">>
D_Unable == <<"U","n","a","b","l","e"," ","t","o"," ","v","e","r","i","f","y">>
D_Limited == <<"L","i","m","i","t","e","d">>
NotProvided == <<"N","o","t"," ","p","r","o","v","i","d","e","d">>

\* ---------------------------------------------------- find_top_engineers
\* module level: CANDIDATES_DIR = Path("candidates")
CANDIDATES_DIR == <<S_candidates>>

\* the three bucket directories move_report_to_status_folder files into
BucketDirs == {CANDIDATES_DIR \o <<S_strongly_shortlist>>,
               CANDIDATES_DIR \o <<S_shortlist>>,
               CANDIDATES_DIR \o <<S_reject>>}

\* get_candidate_dir: the directory (its mkdir is done by the caller's action)
get_candidate_dir(github_url) ==
  IF github_url = <<>> THEN None
  ELSE Some(CANDIDATES_DIR \o <<LastField(RStrip(github_url, "/"), "/")>>)

get_report_path(github_url) ==
  IF github_url = <<>> THEN None
  ELSE Some(Val(get_candidate_dir(github_url)) \o <<S_report_md>>)

\* is_candidate_processed with the lines compared as read, newline included
is_candidate_processed_unstripped(github_url, ledgerFile) ==
  IF github_url = <<>> \/ IsNone(ledgerFile) THEN FALSE
  ELSE LET lines == FileLines(Val(ledgerFile))
       IN github_url \in {lines[i] : i \in 1..Len(lines)}

\* is_candidate_processed: ledgerFile is None (no file) or Some(content)
is_candidate_processed(github_url, ledgerFile) ==
  IF github_url = <<>> \/ IsNone(ledgerFile) THEN FALSE
  ELSE LET lines     == FileLines(Val(ledgerFile))
           processed == {Strip(lines[i]) : i \in 1..Len(lines)}
       IN github_url \in processed

\* mark_candidate_processed with the ledger opened for writing ('w')
mark_candidate_processed_truncating(github_url, ledgerFile) ==
  IF github_url = <<>> THEN ledgerFile
  ELSE Some(github_url \o <<NL>>)

\* mark_candidate_processed that writes nothing
mark_candidate_processed_noop(github_url, ledgerFile) == ledgerFile

\* mark_candidate_processed: the ledger file after open(..., 'a').write
mark_candidate_processed(github_url, ledgerFile) ==
  IF github_url = <<>> THEN ledgerFile
  ELSE Some((IF IsNone(ledgerFile) THEN <<>> ELSE Val(ledgerFile))
            \o github_url \o <<NL>>)

\* StatusFolder with the plain "shortlist" test made first
StatusFolder_plain_first(content) ==
  LET recommendation_match == ReSearchLabel(L_Recommendation, content)
  IN IF IsNone(recommendation_match) THEN None
     ELSE LET recommendation == Lower(Strip(Val(recommendation_match)))
          IN IF Contains(recommendation, T_shortlist)
               THEN Some(CANDIDATES_DIR \o <<S_shortlist>>)
             ELSE IF Contains(recommendation, T_strongly_shortlist)
               THEN Some(CANDIDATES_DIR \o <<S_strongly_shortlist>>)
             ELSE Some(CANDIDATES_DIR \o <<S_reject>>)

\* move_report_to_status_folder, lines 63-72: the folder chosen for a report
\* text, None when the text has no recommendation line
StatusFolder(content) ==
  LET recommendation_match == ReSearchLabel(L_Recommendation, content)
  IN IF IsNone(recommendation_match) THEN None
     ELSE LET recommendation == Lower(Strip(Val(recommendation_match)))
          IN IF Contains(recommendation, T_strongly_shortlist)
               THEN Some(CANDIDATES_DIR \o <<S_strongly_shortlist>>)
             ELSE IF Contains(recommendation, T_shortlist)
               THEN Some(CANDIDATES_DIR \o <<S_shortlist>>)
             ELSE Some(CANDIDATES_DIR \o <<S_reject>>)

\* report_path.name
PathName(path) == path[Len(path)]

\* MovedPath with reject as the folder of a report without recommendation
MovedPath_reject_by_default(fl, report_path) ==
  LET folder == StatusFolder(fl[report_path].content)
  IN IF IsNone(folder)
       THEN CANDIDATES_DIR \o <<S_reject, PathName(report_path)>>
     ELSE Val(folder) \o <<PathName(report_path)>>

\* move_report_to_status_folder, return value: where the report ends up
MovedPath(fl, report_path) ==
  LET folder == StatusFolder(fl[report_path].content)
  IN IF IsNone(folder) THEN report_path
     ELSE Val(folder) \o <<PathName(report_path)>>

\* shutil.move(src, dst) on files: os.rename, which replaces an existing dst
\* and keeps the modification time of the moved file
ShutilMove(fl, src, dst) ==
  IF src = dst THEN fl
  ELSE [p \in (DOMAIN fl \ {src}) \cup {dst} |->
          IF p = dst THEN fl[src] ELSE fl[p]]

\* move_report_to_status_folder: the files after the call
MovedFiles(fl, report_path) ==
  ShutilMove(fl, report_path, MovedPath(fl, report_path))

\* move_report_to_status_folder: the directories after the call
\* (folder.mkdir(exist_ok=True))
MovedDirs(fl, dr, report_path) ==
  LET folder == StatusFolder(fl[report_path].content)
  IN IF IsNone(folder) THEN dr ELSE dr \cup {Val(folder)}

\* folder.glob("*/report.md"): the report files one level below folder
Glob(fl, folder) ==
  {p \in DOMAIN fl : /\ Len(p) = Len(folder) + 2
                     /\ SubSeq(p, 1, Len(folder)) = folder
                     /\ p[Len(p)] = S_report_md}

\* the orders in which a directory scan may yield a set of paths
ScanOrders(S) ==
  {o \in [1..Cardinality(S) -> S] : \A p \in S : \E i \in DOMAIN o : o[i] = p}

\* get_shortlisted_candidates, lines 113-128: the entry of one report file
CandidateInfo(fl, report_path) ==
  LET content     == fl[report_path].content
      eval_status == ReSearchLabel(L_Recommendation, content)
      name        == ReSearchLabel(L_Name, content)
      location    == ReSearchLabel(L_Location, content)
      linkedin    == ReSearchLabel(L_LinkedIn, content)
      github      == ReSearchLabel(L_GitHub, content)
  IN [name              |-> IF IsNone(name) THEN D_Unknown ELSE Strip(Val(name)),
      location          |-> IF IsNone(location) THEN D_Unable
                            ELSE Strip(Val(location)),
      linkedin          |-> IF IsNone(linkedin) THEN D_Unable
                            ELSE Strip(Val(linkedin)),
      github            |-> IF IsNone(github) THEN D_Unknown
                            ELSE Strip(Val(github)),
      evaluation_status |-> IF IsNone(eval_status) THEN D_Limited
                            ELSE Strip(Val(eval_status)),
      report_path       |-> report_path,
      last_updated      |-> fl[report_path].mtime]

\* get_shortlisted_candidates, line 129: the dictionary key of a report file
CandidateKey(fl, report_path) ==
  LET github == ReSearchLabel(L_GitHub, fl[report_path].content)
  IN IF IsNone(github) THEN None ELSE Some(Strip(Val(github)))

\* a list append in place of the dictionary assignment
DictSet_append(d, key, value) == Append(d, <<key, value>>)

\* all_candidates[key] = candidate_info on an insertion-ordered dict, kept as
\* a sequence of <<key, value>>: an existing key keeps its place
DictSet(d, key, value) ==
  IF \E i \in 1..Len(d) : d[i][1] = key
    THEN [i \in 1..Len(d) |-> IF d[i][1] = key THEN <<key, value>> ELSE d[i]]
    ELSE Append(d, <<key, value>>)

\* lines 129-131: one report added to all_candidates (a falsy key adds none)
AddCandidate(fl, d, report_path) ==
  LET key == CandidateKey(fl, report_path)
  IN IF IsNone(key) \/ Val(key) = <<>> THEN d
     ELSE DictSet(d, Val(key), CandidateInfo(fl, report_path))

\* lines 112-131: the reports of one folder added in scan order
RECURSIVE AddAll(_, _, _)
AddAll(fl, d, order) ==
  IF order = <<>> THEN d
  ELSE AddAll(fl, AddCandidate(fl, d, Head(order)), Tail(order))

\* the entries left in dictionary order
Sorted_not_at_all(s) == s

\* sorted(..., key=last_updated, reverse=True): stable, so entries with equal
\* keys keep their order
RECURSIVE SortedByLastUpdatedDesc(_)
SortedByLastUpdatedDesc(s) ==
  IF s = <<>> THEN <<>>
  ELSE LET rest == SortedByLastUpdatedDesc(SubSeq(s, 1, Len(s) - 1))
           e    == s[Len(s)]
           n    == Cardinality({i \in 1..Len(rest) :
                                  rest[i].last_updated >= e.last_updated})
       IN SubSeq(rest, 1, n) \o <<e>> \o SubSeq(rest, n + 1, Len(rest))

\* get_shortlisted_candidates: order1 and order2 are the orders in which the
\* scans of shortlist/ and strongly_shortlist/ yield their report files
get_shortlisted_candidates(fl, dr, order1, order2) ==
  LET d1 == AddAll(fl, <<>>, order1)
      d2 == AddAll(fl, d1, order2)
  IN SortedByLastUpdatedDesc([i \in 1..Len(d2) |-> d2[i][2]])

\* the scan orders get_shortlisted_candidates may meet for one status folder
\* (a folder that does not exist is skipped, line 110)
FolderOrders(fl, dr, status_folder) ==
  LET folder == CANDIDATES_DIR \o <<status_folder>>
  IN IF folder \notin dr THEN {<<>>} ELSE ScanOrders(Glob(fl, folder))

\* ------------------------------------------------------ the environment
\* module level: INFLUENCER_REPOS, the sources main iterates over
INFLUENCER_REPOS == <<"Shubhamsaboo/awesome-llm-apps",
                      "aishwaryanr/awesome-generative-ai-guide">>

\* the accounts GitHub may yield as stargazers
Logins == {<<"a","l">>, <<"b","o">>, <<"c","y">>}

HtmlUrl(login) == GitHubBase \o login

\* the day an account was last updated: exactly on the cutoff of a run
\* started on StartDay, or (one account) the day before
UpdatedAt(login) ==
  IF login = <<"c","y">> THEN StartDay - CUTOFF_DAYS - 1
  ELSE StartDay - CUTOFF_DAYS

\* the NamedUser objects repo.get_stargazers() may yield
Users == {[login |-> l, updated_at |-> UpdatedAt(l)] : l \in Logins}

NoUser == [login |-> <<>>, updated_at |-> 0]

\* a Python dict is a function on its keys; {} is the function on no key
EmptyDict == [k \in {} |-> None]

\* dict.get(key): None for a missing key
DictGet(d, key) == IF key \in DOMAIN d THEN Some(d[key]) ELSE None

\* truth value of a dict
DictTruthy(d) == DOMAIN d # {}

LinkedInUrl == <<"h","t","t","p","s",":","/","/","l","i","n","k","e","d","i","n",
                 ".","c","o","m","/","i","n","/","a","l">>

\* what get_candidate_github_data may return: {} on any failure (its except
\* branch), otherwise the data, whose profile carries the discovered
\* linkedin_url or None
GitHubResults ==
  {EmptyDict}
  \cup {[profile |-> [linkedin_url |-> l]] : l \in {None, Some(LinkedInUrl)}}

\* what get_linkedin_profile_data may return: None (extraction failed), the
\* raw-text fallback (parsed_data {}) or parsed structured data
LinkedInResults ==
  {None,
   Some([extraction_method |-> "browser_automation", parsed_data |-> EmptyDict]),
   Some([extraction_method |-> "browser_automation",
         parsed_data |-> [Name |-> "Al"]])}

\* report texts
RecLine(tier) == L_Recommendation \o <<" ">> \o tier \o <<NL>>
GitHubLine(link) == L_GitHub \o <<" ">> \o link \o <<NL>>
NameLine(n) == L_Name \o <<" ">> \o n \o <<NL>>

Tier_StronglyShortlist == <<"S","t","r","o","n","g","l","y"," ","S","h","o","r","t","l","i","s","t">>
Tier_Shortlist == <<"S","h","o","r","t","l","i","s","t">>
Tier_Neutral == <<"N","e","u","t","r","a","l">>
Tier_Reject == <<"R","e","j","e","c","t">>
Tier_StronglyReject == <<"S","t","r","o","n","g","l","y"," ","R","e","j","e","c","t">>

\* the texts the LLM may produce in a run of the program
LLMReports ==
  {RecLine(Tier_Shortlist) \o GitHubLine(HtmlUrl(<<"a","l">>)),
   RecLine(Tier_Reject),
   <<"N","o"," ","d","a","t","a",NL>>}

\* what LLMClient.get_completion may return: None on any error, otherwise
\* response.output_text (which may be the empty string)
LLMResults == {None, Some(<<>>)} \cup {Some(t) : t \in LLMReports}

\* a report store found on disk when the program first starts: nothing, or
\* reports already filed in the layout get_shortlisted_candidates scans
\* (a per-candidate subfolder of a bucket)
StoredPath(bucket, login) == CANDIDATES_DIR \o <<bucket, login, S_report_md>>

InitialStores ==
  {[files |-> EmptyDict, dirs |-> {}],
   [files |-> [p \in {StoredPath(S_shortlist, <<"b","o">>)} |->
                 [content |-> RecLine(Tier_Shortlist)
                              \o GitHubLine(HtmlUrl(<<"b","o">>)),
                  mtime |-> StartDay - 1]],
    dirs |-> {CANDIDATES_DIR, CANDIDATES_DIR \o <<S_shortlist>>,
              CANDIDATES_DIR \o <<S_shortlist, <<"b","o">>>>}]}

\* --top-n values tried
TopNs == {1, 2}

\* ------------------------------------------------------------- the state
VARIABLES
  files,           \* disk: path -> [content, mtime] of every regular file
  dirs,            \* disk: the directories
  ledger,          \* disk: processed_candidates.txt, None or Some(content)
  now,             \* the wall clock, in days
  run,             \* how many times the program has been started
  pc,              \* where the running process is
  args,            \* main: the parsed command line
  cutoff,          \* module level: cutoff
  shortlisted,     \* main: shortlisted
  processed_users, \* main: processed_users
  src,             \* main: index of the current entry of INFLUENCER_REPOS
  user,            \* analyze_user: user
  github_data,     \* analyze_candidate: github_data
  linkedin_data,   \* analyze_candidate: linkedin_data
  payload,         \* analyze_candidate: [CANDIDATE DATA] of system_prompt
  analysis,        \* analyze_user: analysis
  report_path,     \* analyze_user: report_path
  new_report_path, \* analyze_user: new_report_path
  result,          \* main: result
  exit_reason,     \* how the process ended
  offers,          \* history: stargazers yielded so far, over all runs
  invoked,         \* history: adapters invoked by the current analyze_user
  llm_failed,      \* history: URLs whose last LLM call returned None
  written,         \* history: URLs whose report file has been written
  routed,          \* history: URL -> where its last report was routed
  page,            \* get_linkedin_from_github: the profile page fetched
  text_to_search,  \* get_linkedin_from_github: text_to_search
  linkedin_url,    \* get_linkedin_from_github: the URL it returns
  user_repos,      \* get_candidate_github_data: what user.get_repos yields
  profile_url,     \* get_profile_data: the profile URL requested
  current_url,     \* get_profile_data: the address the browser is at
  agent_history,   \* get_profile_data: result of agent.run
  linkedin_result  \* what get_linkedin_profile_data returned

disk == <<files, dirs, ledger>>
mainVars == <<args, cutoff, shortlisted, processed_users, src>>
locals == <<user, github_data, linkedin_data, payload, analysis, report_path,
            new_report_path, result>>
history == <<offers, invoked, llm_failed, written, routed>>
linkVars == <<page, text_to_search, linkedin_url>>
liVars == <<profile_url, current_url, agent_history, linkedin_result>>
adapterVars == <<linkVars, user_repos, liVars>>
vars == <<disk, now, run, pc, mainVars, locals, exit_reason, history,
          adapterVars>>

LastDay == StartDay + MaxTicks

\* no profile page is being searched
NoPage == [bio |-> None, hrefs |-> <<>>, readme |-> None]

NoSearch ==
  /\ page = NoPage
  /\ text_to_search = <<>>
  /\ linkedin_url = None
  /\ user_repos = <<>>
  /\ profile_url = <<>>
  /\ current_url = <<>>
  /\ agent_history = None
  /\ linkedin_result = None

ClearedLocals ==
  /\ user' = NoUser
  /\ github_data' = EmptyDict
  /\ linkedin_data' = None
  /\ payload' = None
  /\ analysis' = None
  /\ report_path' = None
  /\ new_report_path' = None
  /\ result' = None

Init ==
  /\ \E st \in InitialStores : files = st.files /\ dirs = st.dirs
  /\ ledger = None
  /\ now = StartDay
  /\ run = 1
  /\ pc = "import"
  /\ args = [force_reanalysis |-> FALSE, top_n |-> 0]
  /\ cutoff = 0
  /\ shortlisted = <<>>
  /\ processed_users = {}
  /\ src = 1
  /\ offers = 0
  /\ user = NoUser
  /\ github_data = EmptyDict
  /\ linkedin_data = None
  /\ payload = None
  /\ analysis = None
  /\ report_path = None
  /\ new_report_path = None
  /\ result = None
  /\ exit_reason = "running"
  /\ invoked = {}
  /\ llm_failed = {}
  /\ written = {}
  /\ routed = EmptyDict
  /\ NoSearch

\* --------------------------------------------------------------- actions
\* Import with a window one day longer than CUTOFF_DAYS
Import_window_off_by_one ==
  /\ pc = "import"
  /\ dirs' = dirs \cup {CANDIDATES_DIR}
  /\ cutoff' = now - CUTOFF_DAYS - 1
  /\ pc' = "main"
  /\ UNCHANGED <<files, ledger, now, run, args, shortlisted, processed_users,
                 src, locals, exit_reason, history>>
  /\ UNCHANGED adapterVars

\* find_top_engineers.py module level, lines 11-23: the candidates directory
\* is created and cutoff is computed once, when the process starts
Import ==
  /\ pc = "import"
  /\ dirs' = dirs \cup {CANDIDATES_DIR}
  /\ cutoff' = now - CUTOFF_DAYS
  /\ pc' = "main"
  /\ UNCHANGED <<files, ledger, now, run, args, shortlisted, processed_users,
                 src, locals, exit_reason, history>>
  /\ UNCHANGED adapterVars

\* main, lines 136-148: the command line is parsed, the shortlist is read
\* from the report store and its GitHub links seed processed_users
MainStart ==
  /\ pc = "main"
  /\ \E force \in BOOLEAN, n \in TopNs :
       args' = [force_reanalysis |-> force, top_n |-> n]
  /\ \E o1 \in FolderOrders(files, dirs, S_shortlist),
        o2 \in FolderOrders(files, dirs, S_strongly_shortlist) :
       /\ shortlisted' = get_shortlisted_candidates(files, dirs, o1, o2)
       /\ processed_users' =
            {shortlisted'[i].github : i \in 1..Len(shortlisted')}
  /\ src' = 1
  /\ pc' = "loop"
  /\ UNCHANGED <<disk, now, run, cutoff, locals, exit_reason, history>>
  /\ UNCHANGED adapterVars

\* main, lines 149-152: the inner loop over a source ends (its stargazers
\* are exhausted, or line 154 breaks out of it): the next source, or the end
InnerLoopEnds ==
  IF src < Len(INFLUENCER_REPOS)
    THEN src' = src + 1 /\ pc' = "loop"
    ELSE src' = src /\ pc' = "end"

\* main, line 152: the stargazers of the current source are exhausted
SourceExhausted ==
  /\ pc = "loop"
  /\ InnerLoopEnds
  /\ UNCHANGED <<disk, now, run, args, cutoff, shortlisted, processed_users,
                 locals, exit_reason, history>>
  /\ UNCHANGED adapterVars

\* NextStargazer with the target test of line 153 made with > for >=
NextStargazer_strict_target ==
  /\ pc = "loop"
  /\ offers < MaxOffers
  /\ offers' = offers + 1
  /\ \E u \in Users :
       IF Len(shortlisted) > args.top_n
         THEN /\ InnerLoopEnds
              /\ UNCHANGED <<user, invoked>>
       ELSE IF HtmlUrl(u.login) \in processed_users
         THEN UNCHANGED <<src, pc, user, invoked>>
       ELSE /\ user' = u
            /\ invoked' = {}
            /\ pc' = "au_check"
            /\ UNCHANGED src
  /\ UNCHANGED <<disk, now, run, args, cutoff, shortlisted, processed_users,
                 github_data, linkedin_data, payload, analysis, report_path,
                 new_report_path, result, exit_reason, llm_failed, written,
                 routed>>
  /\ UNCHANGED adapterVars

\* main, lines 152-157: the current source yields one more stargazer
NextStargazer ==
  /\ pc = "loop"
  /\ offers < MaxOffers
  /\ offers' = offers + 1
  /\ \E u \in Users :
       IF Len(shortlisted) >= args.top_n
         THEN /\ InnerLoopEnds
              /\ UNCHANGED <<user, invoked>>
       ELSE IF HtmlUrl(u.login) \in processed_users
         THEN UNCHANGED <<src, pc, user, invoked>>
       ELSE /\ user' = u
            /\ invoked' = {}
            /\ pc' = "au_check"
            /\ UNCHANGED src
  /\ UNCHANGED <<disk, now, run, args, cutoff, shortlisted, processed_users,
                 github_data, linkedin_data, payload, analysis, report_path,
                 new_report_path, result, exit_reason, llm_failed, written, routed>>
  /\ UNCHANGED adapterVars

\* the recency gate with the cutoff computed when the gate is evaluated
TooOld_cutoff_at_call(u) == u.updated_at < now - CUTOFF_DAYS

\* analyze_user, line 84: the recency gate
TooOld(u) == u.updated_at < cutoff

\* AuCheck with a ledger append for the accounts the recency gate rejects
AuCheck_marks_old ==
  /\ pc = "au_check"
  /\ IF ~args.force_reanalysis
        /\ is_candidate_processed(HtmlUrl(user.login), ledger)
       THEN pc' = "returned" /\ UNCHANGED ledger
     ELSE IF TooOld(user)
       THEN /\ pc' = "returned"
            /\ ledger' = mark_candidate_processed(HtmlUrl(user.login), ledger)
     ELSE pc' = "ac_github" /\ UNCHANGED ledger
  /\ UNCHANGED <<files, dirs, now, run, mainVars, locals, exit_reason,
                 history>>
  /\ UNCHANGED adapterVars

\* analyze_user, lines 80-85: the ledger check and the recency gate
AuCheck ==
  /\ pc = "au_check"
  /\ IF ~args.force_reanalysis
        /\ is_candidate_processed(HtmlUrl(user.login), ledger)
       THEN pc' = "returned"
     ELSE IF TooOld(user)
       THEN pc' = "returned"
     ELSE pc' = "ac_github"
  /\ UNCHANGED <<disk, now, run, mainVars, locals, exit_reason, history>>
  /\ UNCHANGED adapterVars

\* the except branch of analyze_user, lines 101-103: sys.exit(1)
FatalExit ==
  /\ pc' = "exited"
  /\ exit_reason' = "fatal_error"

\* analyze_candidate, lines 19-24: the GitHub adapter is called; reading the
\* profile of an empty result raises AttributeError (None has no .get),
\* which analyze_user catches at line 101
AcGitHub ==
  /\ pc = "ac_github"
  /\ invoked' = invoked \cup {"github"}
  /\ \E r \in GitHubResults :
       /\ github_data' = r
       /\ IF IsNone(DictGet(r, "profile"))
            THEN FatalExit
          ELSE /\ exit_reason' = exit_reason
               /\ pc' = IF IsNone(r.profile.linkedin_url)
                          THEN "ac_compose" ELSE "ac_linkedin"
  /\ UNCHANGED <<disk, now, run, mainVars, user, linkedin_data, payload,
                 analysis, report_path, new_report_path, result, offers,
                 llm_failed, written, routed>>
  /\ UNCHANGED adapterVars

\* analyze_candidate, lines 27-31: the LinkedIn adapter is called for the
\* discovered URL
AcLinkedIn ==
  /\ pc = "ac_linkedin"
  /\ invoked' = invoked \cup {"linkedin"}
  /\ \E r \in LinkedInResults :
       /\ linkedin_result' = r
       /\ linkedin_data' =
            IF ~IsNone(r) /\ DictTruthy(Val(r).parsed_data)
              THEN Some(Val(r).parsed_data) ELSE None
  /\ pc' = "ac_compose"
  /\ UNCHANGED <<disk, now, run, mainVars, user, github_data, payload,
                 analysis, report_path, new_report_path, result, exit_reason,
                 offers, llm_failed, written, routed>>
  /\ UNCHANGED <<linkVars, user_repos, profile_url, current_url, agent_history>>

\* ComposePayload with the LinkedIn data serialized whatever it is
ComposePayload_always_dumps(gh, li) ==
  [GitHub   |-> [json_dumps |-> gh],
   LinkedIn |-> [json_dumps |-> li]]

\* analyze_candidate, lines 40-41: the [CANDIDATE DATA] part of the prompt
ComposePayload(gh, li) ==
  [GitHub   |-> [json_dumps |-> gh],
   LinkedIn |-> IF ~IsNone(li) /\ DictTruthy(Val(li))
                  THEN [json_dumps |-> Val(li)]
                  ELSE [text |-> NotProvided]]

\* analyze_candidate, lines 33-56: the prompt is composed
AcCompose ==
  /\ pc = "ac_compose"
  /\ payload' = Some(ComposePayload(github_data, linkedin_data))
  /\ pc' = "ac_llm"
  /\ UNCHANGED <<disk, now, run, mainVars, user, github_data, linkedin_data,
                 analysis, report_path, new_report_path, result, exit_reason,
                 history>>
  /\ UNCHANGED adapterVars

\* analyze_candidate, lines 57-61, and analyze_user, line 86: the LLM is
\* called with the prompt (the call takes time) and analyze_candidate
\* returns what the LLM returned; its own locals end with it
AcLLM ==
  /\ pc = "ac_llm"
  /\ invoked' = invoked \cup {"llm"}
  /\ \E r \in LLMResults :
       /\ analysis' = r
       /\ llm_failed' = IF IsNone(r)
                          THEN llm_failed \cup {HtmlUrl(user.login)}
                          ELSE llm_failed \ {HtmlUrl(user.login)}
  /\ \E t \in now..LastDay : now' = t
  /\ github_data' = EmptyDict
  /\ linkedin_data' = None
  /\ payload' = None
  /\ linkedin_result' = None
  /\ pc' = "au_report"
  /\ UNCHANGED <<disk, run, mainVars, user, report_path, new_report_path,
                 result, exit_reason, offers, written, routed>>
  /\ UNCHANGED <<linkVars, user_repos, profile_url, current_url, agent_history>>

\* truth value of an Optional[str]
StrTruthy(o) == ~IsNone(o) /\ Val(o) # <<>>

\* the return of line 100 preceded by a ledger append
AuNoReport_marks ==
  /\ pc' = "returned"
  /\ ledger' = mark_candidate_processed(HtmlUrl(user.login), ledger)
  /\ UNCHANGED <<dirs, files, report_path, written>>

\* analyze_user, line 100: return None, nothing written
AuNoReport ==
  /\ pc' = "returned"
  /\ UNCHANGED <<dirs, files, ledger, report_path, written>>

\* analyze_user, lines 87-91 and 100: without an analysis the call returns
\* None; otherwise the candidate directory is made and the report written
AuReport ==
  /\ pc = "au_report"
  /\ IF StrTruthy(analysis)
       THEN LET url == HtmlUrl(user.login)
                rp  == Val(get_report_path(url))
            IN /\ dirs' = dirs \cup {Val(get_candidate_dir(url))}
               /\ report_path' = Some(rp)
               /\ files' = [p \in DOMAIN files \cup {rp} |->
                              IF p = rp
                                THEN [content |-> Val(analysis), mtime |-> now]
                                ELSE files[p]]
               /\ written' = written \cup {url}
               /\ pc' = "au_move"
               /\ UNCHANGED ledger
       ELSE AuNoReport
  /\ UNCHANGED <<now, run, mainVars, user, github_data, linkedin_data,
                 payload, analysis, new_report_path, result, exit_reason,
                 offers, invoked, llm_failed, routed>>
  /\ UNCHANGED adapterVars

\* analyze_user, line 93: move_report_to_status_folder(report_path)
AuMove ==
  /\ pc = "au_move"
  /\ LET rp == Val(report_path)
     IN /\ files' = MovedFiles(files, rp)
        /\ dirs' = MovedDirs(files, dirs, rp)
        /\ new_report_path' = Some(MovedPath(files, rp))
        /\ routed' = [u \in DOMAIN routed \cup {HtmlUrl(user.login)} |->
                        IF u = HtmlUrl(user.login)
                          THEN MovedPath(files, rp) ELSE routed[u]]
  /\ pc' = "au_mark"
  /\ UNCHANGED <<ledger, now, run, mainVars, user, github_data, linkedin_data,
                 payload, analysis, report_path, result, exit_reason, offers,
                 invoked, llm_failed, written>>
  /\ UNCHANGED adapterVars

\* a process that has ended has no memory left
ClearedMain ==
  /\ args' = [force_reanalysis |-> FALSE, top_n |-> 0]
  /\ cutoff' = 0
  /\ shortlisted' = <<>>
  /\ processed_users' = {}
  /\ src' = 1

\* mark_candidate_processed, lines 55-57: opening or writing the ledger
\* raised; the except branch prints the error and calls sys.exit(1), which
\* the `except Exception` of analyze_user does not catch
MarkFails ==
  /\ pc' = "exited"
  /\ exit_reason' = "mark_error"
  /\ ClearedMain
  /\ ClearedLocals
  /\ invoked' = {}
  /\ UNCHANGED <<ledger, offers, llm_failed, written, routed>>

\* analyze_user, lines 94-99, when the append went through: the result
MarkDone ==
  /\ ledger' = mark_candidate_processed(HtmlUrl(user.login), ledger)
  /\ result' = Some([login |-> user.login, url |-> HtmlUrl(user.login),
                     analysis |-> Val(analysis)])
  /\ pc' = "returned"
  /\ UNCHANGED <<mainVars, user, github_data, linkedin_data, payload,
                 analysis, report_path, new_report_path, exit_reason,
                 history>>

\* AuMark with an except branch that prints the error and goes on
AuMark_error_swallowed ==
  /\ pc = "au_mark"
  /\ \/ MarkDone
     \/ /\ result' = Some([login |-> user.login, url |-> HtmlUrl(user.login),
                            analysis |-> Val(analysis)])
        /\ pc' = "returned"
        /\ UNCHANGED <<ledger, mainVars, user, github_data, linkedin_data,
                       payload, analysis, report_path, new_report_path,
                       exit_reason, history>>
  /\ UNCHANGED <<files, dirs, now, run>>
  /\ UNCHANGED adapterVars

\* analyze_user, lines 94-99: the ledger append, which goes through or
\* raises (an I/O error), then the result
AuMark ==
  /\ pc = "au_mark"
  /\ MarkDone \/ MarkFails
  /\ UNCHANGED <<files, dirs, now, run>>
  /\ UNCHANGED adapterVars

\* MainAfter without the addition of line 159 to processed_users
MainAfter_forgets_url ==
  /\ pc = "returned"
  /\ IF ~IsNone(result)
       THEN /\ UNCHANGED processed_users
            /\ \E o1 \in FolderOrders(files, dirs, S_shortlist),
                  o2 \in FolderOrders(files, dirs, S_strongly_shortlist) :
                 shortlisted' = get_shortlisted_candidates(files, dirs, o1, o2)
       ELSE UNCHANGED <<processed_users, shortlisted>>
  /\ ClearedLocals
  /\ invoked' = {}
  /\ pc' = "loop"
  /\ UNCHANGED <<disk, now, run, args, cutoff, src, exit_reason, offers,
                 llm_failed, written, routed>>
  /\ UNCHANGED adapterVars

\* main, lines 157-160: analyze_user has returned; a result is recorded and
\* the shortlist is read again from the report store
MainAfter ==
  /\ pc = "returned"
  /\ IF ~IsNone(result)
       THEN /\ processed_users' = processed_users \cup {Val(result).url}
            /\ \E o1 \in FolderOrders(files, dirs, S_shortlist),
                  o2 \in FolderOrders(files, dirs, S_strongly_shortlist) :
                 shortlisted' = get_shortlisted_candidates(files, dirs, o1, o2)
       ELSE UNCHANGED <<processed_users, shortlisted>>
  /\ ClearedLocals
  /\ invoked' = {}
  /\ pc' = "loop"
  /\ UNCHANGED <<disk, now, run, args, cutoff, src, exit_reason, offers,
                 llm_failed, written, routed>>
  /\ UNCHANGED adapterVars

\* MainEnd with the failure exit taken whenever the target was not met
MainEnd_below_target ==
  /\ pc = "end"
  /\ exit_reason' = IF Len(shortlisted) < args.top_n
                      THEN "no_candidates" ELSE "printed"
  /\ pc' = "exited"
  /\ UNCHANGED <<disk, now, run, mainVars, locals, history>>
  /\ UNCHANGED adapterVars

\* main, lines 161-172: the end of the run
MainEnd ==
  /\ pc = "end"
  /\ exit_reason' = IF shortlisted = <<>> THEN "no_candidates" ELSE "printed"
  /\ pc' = "exited"
  /\ UNCHANGED <<disk, now, run, mainVars, locals, history>>
  /\ UNCHANGED adapterVars

\* the process is killed (or the machine stops) between two steps
Crash ==
  /\ pc \notin {"import", "exited"}
  /\ pc' = "exited"
  /\ exit_reason' = "killed"
  /\ ClearedMain
  /\ ClearedLocals
  /\ invoked' = {}
  /\ UNCHANGED <<disk, now, run, offers, llm_failed, written, routed>>
  /\ UNCHANGED adapterVars

\* the program is started again: a new process, which shares only the disk
\* with the one before
NewRun ==
  /\ pc = "exited"
  /\ run < MaxRuns
  /\ run' = run + 1
  /\ pc' = "import"
  /\ exit_reason' = "running"
  /\ ClearedMain
  /\ ClearedLocals
  /\ invoked' = {}
  /\ UNCHANGED <<disk, now, offers, llm_failed, written, routed>>
  /\ UNCHANGED adapterVars

Next ==
  \/ Import
  \/ MainStart
  \/ SourceExhausted
  \/ NextStargazer
  \/ AuCheck
  \/ AcGitHub
  \/ AcLinkedIn
  \/ AcCompose
  \/ AcLLM
  \/ AuReport
  \/ AuMove
  \/ AuMark
  \/ MainAfter
  \/ MainEnd
  \/ Crash
  \/ NewRun

Spec == Init /\ [][Next]_vars

\* ------------------------------------------------- filing one evaluation
\* The steps of analyze_user and main that file one produced report and read
\* the shortlist again (lines 87-99 and 158-160), started from any report
\* store and any LLM text: the state right after analyze_candidate returned.

\* the letter cases a tier is tried in
CaseVariants(t) == {t, Lower(t), Upper(t)}

Tiers == {Tier_StronglyShortlist, Tier_Shortlist, Tier_Neutral, Tier_Reject,
          Tier_StronglyReject}

\* LLM texts whose recommendation line carries one of the five tiers
TierTexts ==
  {RecLine(v) \o GitHubLine(HtmlUrl(<<"a","l">>)) :
     v \in UNION {CaseVariants(t) : t \in Tiers}}

\* LLM texts without a recommendation line
NoRecTexts ==
  {GitHubLine(HtmlUrl(<<"a","l">>)),
   NameLine(<<"A","l">>) \o GitHubLine(HtmlUrl(<<"a","l">>)),
   <<"N","o"," ","d","a","t","a",NL>>}

\* how many days back the modification times of stored reports reach
MaxAge == 3

\* report texts found in the store
StoredTexts ==
  {RecLine(Tier_StronglyShortlist),
   RecLine(Tier_Shortlist) \o GitHubLine(HtmlUrl(<<"a","l">>)),
   NameLine(<<"B","o">>) \o RecLine(Tier_Shortlist)
     \o GitHubLine(HtmlUrl(<<"b","o">>)),
   RecLine(Tier_StronglyShortlist) \o GitHubLine(HtmlUrl(<<"c","y">>))}

StoredFiles == [content : StoredTexts, mtime : (StartDay - MaxAge)..(StartDay - 1)]

\* the per-candidate report locations of the two shortlist buckets used
StoredSlots == {StoredPath(S_shortlist, <<"a","l">>),
                StoredPath(S_shortlist, <<"b","o">>),
                StoredPath(S_strongly_shortlist, <<"a","l">>)}

\* the directories a set of stored report paths lies in
DirsOf(paths) ==
  {CANDIDATES_DIR} \cup {SubSeq(p, 1, 2) : p \in paths}
                   \cup {SubSeq(p, 1, 3) : p \in paths}

InitFiling ==
  /\ \E used \in SUBSET StoredSlots :
       /\ files \in [used -> StoredFiles]
       /\ dirs = DirsOf(used)
  /\ analysis \in {Some(t) : t \in TierTexts \cup NoRecTexts}
     \* the tiers are tried against stores of at most one report, the
     \* larger stores with one text
  /\ user \in {u \in Users : u.updated_at >= StartDay - CUTOFF_DAYS}
  /\ Cardinality(DOMAIN files) > 1
       => /\ analysis = Some(RecLine(Tier_Shortlist)
                             \o GitHubLine(HtmlUrl(<<"a","l">>)))
          /\ user.login = <<"a","l">>
  /\ ledger = None
  /\ now = StartDay
  /\ run = 1
  /\ pc = "au_report"
  /\ args = [force_reanalysis |-> FALSE, top_n |-> 1]
  /\ cutoff = StartDay - CUTOFF_DAYS
  /\ shortlisted = <<>>
  /\ processed_users = {}
  /\ src = 1
  /\ github_data = EmptyDict
  /\ linkedin_data = None
  /\ payload = None
  /\ report_path = None
  /\ new_report_path = None
  /\ result = None
  /\ exit_reason = "running"
  /\ offers = 1
  /\ invoked = {"github", "llm"}
  /\ llm_failed = {}
  /\ written = {}
  /\ routed = EmptyDict
  /\ NoSearch

NextFiling ==
  \/ AuReport
  \/ AuMove
  \/ AuMark
  \/ MainAfter

SpecFiling == InitFiling /\ [][NextFiling]_vars

\* ----------------------------------- the LinkedIn link of a GitHub profile
\* GitHubClient.get_linkedin_from_github (src/utils/github_client.py): the
\* profile page is fetched, the bio, the external links and the README are
\* joined into text_to_search, and four patterns are searched in order.

Digits == {"0","1","2","3","4","5","6","7","8","9"}

\* the character class [a-zA-Z0-9\-_%]
HandleChars ==
  {LowerCase[i] : i \in 1..26} \cup {UpperCase[i] : i \in 1..26}
    \cup Digits \cup {"-", "_", "%"}

\* the literals of the patterns (lines 110-113), of the prefixes added to a
\* match (lines 121-125) and of the link filter (lines 101-104)
R_http == <<"h","t","t","p">>
R_scheme_end == <<":","/","/">>
R_www == <<"w","w","w",".">>
R_linkedin_in ==
  <<"l","i","n","k","e","d","i","n",".","c","o","m","/","i","n","/">>
R_in == <<"i","n","/">>
P_https == <<"h","t","t","p","s",":","/","/">>
P_linkedin ==
  <<"h","t","t","p","s",":","/","/","l","i","n","k","e","d","i","n",".",
    "c","o","m","/">>
P_linkedin_in ==
  <<"h","t","t","p","s",":","/","/","l","i","n","k","e","d","i","n",".",
    "c","o","m","/","i","n","/">>
H_github ==
  <<"h","t","t","p","s",":","/","/","g","i","t","h","u","b",".","c","o",
    "m">>
H_docs ==
  <<"h","t","t","p","s",":","/","/","d","o","c","s",".","g","i","t","h",
    "u","b",".","c","o","m">>
H_support ==
  <<"h","t","t","p","s",":","/","/","s","u","p","p","o","r","t",".","g",
    "i","t","h","u","b",".","c","o","m">>

\* str.startswith
StartsWith(s, p) == Len(p) <= Len(s) /\ SubSeq(s, 1, Len(p)) = p

\* a literal of a pattern matches s at index i, letter case ignored
\* (re.IGNORECASE)
LitAt(lit, s, i) ==
  /\ i >= 1
  /\ i + Len(lit) - 1 <= Len(s)
  /\ \A k \in 1..Len(lit) : LowerChar(s[i + k - 1]) = lit[k]

\* [a-zA-Z0-9\-_%]+ tried at index i: the index after the longest run of
\* handle characters (i itself when there is none)
HandleEnd(s, i) ==
  LET stops == {j \in i..Len(s) : s[j] \notin HandleChars}
  IN IF stops = {} THEN Len(s) + 1
     ELSE CHOOSE j \in stops : \A k \in stops : j <= k

\* [a-zA-Z0-9\-_%]+/? tried at index i: the index after the match, 0 when
\* it does not match
TailEnd(s, i) ==
  LET e == HandleEnd(s, i)
  IN IF e = i THEN 0
     ELSE IF e <= Len(s) /\ s[e] = "/" THEN e + 1
     ELSE e

\* pattern n of linkedin_patterns tried at index i of s: the index after the
\* match, 0 when it does not match there
PatternEnd(n, s, i) ==
  IF n = 1 THEN
    IF ~LitAt(R_http, s, i) THEN 0
    ELSE LET j1 == IF i + 4 <= Len(s) /\ LowerChar(s[i + 4]) = "s"
                     THEN i + 5 ELSE i + 4
         IN IF ~LitAt(R_scheme_end, s, j1) THEN 0
            ELSE LET j2 == IF LitAt(R_www, s, j1 + 3)
                             THEN j1 + 7 ELSE j1 + 3
                 IN IF ~LitAt(R_linkedin_in, s, j2) THEN 0
                    ELSE TailEnd(s, j2 + Len(R_linkedin_in))
  ELSE IF n = 2 THEN
    IF ~LitAt(R_linkedin_in, s, i) THEN 0
    ELSE TailEnd(s, i + Len(R_linkedin_in))
  ELSE IF n = 3 THEN
    IF ~LitAt(R_in, s, i) THEN 0 ELSE TailEnd(s, i + Len(R_in))
  ELSE
    IF s[i] # "@" \/ HandleEnd(s, i + 1) = i + 1 THEN 0
    ELSE HandleEnd(s, i + 1)

\* re.search(pattern n, s, re.IGNORECASE).group(1): the leftmost match
ReSearchLink(n, s) ==
  LET at == {i \in 1..Len(s) : PatternEnd(n, s, i) # 0}
  IN IF at = {} THEN None
     ELSE LET i == CHOOSE i \in at : \A j \in at : i <= j
          IN Some(SubSeq(s, i, PatternEnd(n, s, i) - 1))

\* lines 119-126: the match made an absolute URL, trailing slashes removed
NormalizeLink(m) ==
  LET abs == IF StartsWith(m, R_http) THEN m
             ELSE IF m[1] = "@" THEN P_linkedin_in \o Tail(m)
             ELSE IF StartsWith(m, R_in) THEN P_linkedin \o m
             ELSE P_https \o m
  IN RStrip(abs, "/")

\* the patterns searched first by position in the text, not by priority
PatternOrder_shorthand_first == <<4, 3, 2, 1>>

\* linkedin_patterns, lines 109-114: the order the patterns are tried in
PatternOrder == <<1, 2, 3, 4>>

\* lines 115-127: the first pattern of the list that matches decides
SearchLinkedIn(s) ==
  LET hits == {k \in 1..Len(PatternOrder) :
                 ~IsNone(ReSearchLink(PatternOrder[k], s))}
  IN IF hits = {} THEN None
     ELSE LET k == CHOOSE k \in hits : \A j \in hits : k <= j
          IN Some(NormalizeLink(Val(ReSearchLink(PatternOrder[k], s))))

\* lines 99-105: the links of the profile that are searched
SearchedHrefs(hrefs) ==
  SelectSeq(hrefs, LAMBDA href :
    /\ StartsWith(href, R_http)
    /\ ~StartsWith(href, H_github)
    /\ ~StartsWith(href, H_docs)
    /\ ~StartsWith(href, H_support))

\* lines 92-108: the parts of the page in the order they are searched
SearchedParts(pg) ==
  (IF IsNone(pg.bio) THEN <<>> ELSE <<Val(pg.bio)>>)
    \o SearchedHrefs(pg.hrefs)
    \o (IF IsNone(pg.readme) THEN <<>> ELSE <<Val(pg.readme)>>)

\* lines 92-108: text_to_search, every part followed by a blank
RECURSIVE JoinParts(_)
JoinParts(parts) ==
  IF parts = <<>> THEN <<>>
  ELSE Head(parts) \o <<" ">> \o JoinParts(Tail(parts))

\* the handles and the forms a LinkedIn link is written in on a page
Handles == {<<"a","l">>, <<"b","o">>}
AtForm(h) == <<"@">> \o h
InForm(h) == R_in \o h
BareForm(h) == R_linkedin_in \o h
MixedCaseForm(h) ==
  <<"L","i","n","k","e","d","I","n",".","c","o","m","/","i","n","/">> \o h
FullForm(h) == P_linkedin_in \o h
WwwForm(h) == P_https \o R_www \o R_linkedin_in \o h
HttpForm(h) == R_http \o R_scheme_end \o R_linkedin_in \o h
Slash(t) == t \o <<"/">>
PlainWord == <<"h","i">>

\* what the bio, the links and the README of a fetched profile may hold
BioTexts ==
  {PlainWord, AtForm(<<"a","l">>), AtForm(<<"b","o">>), InForm(<<"a","l">>),
   Slash(InForm(<<"b","o">>)), Slash(BareForm(<<"a","l">>)),
   MixedCaseForm(<<"b","o">>)}

Hrefs ==
  {FullForm(<<"a","l">>), Slash(WwwForm(<<"b","o">>)), HttpForm(<<"a","l">>),
   H_github \o <<"/">> \o InForm(<<"b","o">>), BareForm(<<"b","o">>)}

ReadmeTexts ==
  {PlainWord, AtForm(<<"a","l">>), InForm(<<"b","o">>),
   BareForm(<<"b","o">>), FullForm(<<"b","o">>)}

Pages ==
  [bio    : {None} \cup {Some(t) : t \in BioTexts},
   hrefs  : {<<>>} \cup {<<h>> : h \in Hrefs},
   readme : {None} \cup {Some(t) : t \in ReadmeTexts}]

\* lines 86-91: the page is requested; a failed request returns None
GlFetch ==
  /\ pc = "gl_request"
  /\ \/ /\ pc' = "gl_returned"
        /\ UNCHANGED page
     \/ /\ page' \in Pages
        /\ pc' = "gl_collect"
  /\ UNCHANGED <<text_to_search, linkedin_url>>
  /\ UNCHANGED <<disk, now, run, mainVars, locals, exit_reason, history,
                 user_repos, liVars>>

\* lines 92-108: text_to_search is put together
GlCollect ==
  /\ pc = "gl_collect"
  /\ text_to_search' = JoinParts(SearchedParts(page))
  /\ pc' = "gl_search"
  /\ UNCHANGED <<page, linkedin_url>>
  /\ UNCHANGED <<disk, now, run, mainVars, locals, exit_reason, history,
                 user_repos, liVars>>

\* lines 109-127: the patterns are searched and the result returned
GlSearch ==
  /\ pc = "gl_search"
  /\ linkedin_url' = SearchLinkedIn(text_to_search)
  /\ pc' = "gl_returned"
  /\ UNCHANGED <<page, text_to_search>>
  /\ UNCHANGED <<disk, now, run, mainVars, locals, exit_reason, history,
                 user_repos, liVars>>

InitLinks ==
  /\ pc = "gl_request"
  /\ NoSearch
  /\ files = EmptyDict
  /\ dirs = {}
  /\ ledger = None
  /\ now = StartDay
  /\ run = 1
  /\ args = [force_reanalysis |-> FALSE, top_n |-> 0]
  /\ cutoff = 0
  /\ shortlisted = <<>>
  /\ processed_users = {}
  /\ src = 1
  /\ user = NoUser
  /\ github_data = EmptyDict
  /\ linkedin_data = None
  /\ payload = None
  /\ analysis = None
  /\ report_path = None
  /\ new_report_path = None
  /\ result = None
  /\ exit_reason = "running"
  /\ offers = 0
  /\ invoked = {}
  /\ llm_failed = {}
  /\ written = {}
  /\ routed = EmptyDict

NextLinks ==
  \/ GlFetch
  \/ GlCollect
  \/ GlSearch

SpecLinks == InitLinks /\ [][NextLinks]_vars

\* ------------------------------------------- the GitHub data of a candidate
\* GitHubClient.get_candidate_github_data (src/utils/github_client.py): the
\* profile, the summaries of the repositories that are no forks, and the
\* tally of their languages; {} when anything raises.

\* how many repositories user.get_repos may yield
MaxRepos == 3

\* repo.language: None, the empty string or a language
Languages == {None, Some(""), Some("Go"), Some("Python")}

\* the repositories the API may yield
FetchedRepos == [name : {"a", "b"}, fork : BOOLEAN, language : Languages]

RepoLists == UNION {[1..n -> FetchedRepos] : n \in 0..MaxRepos}

\* lines 43-51: the summary of one repository (the fields the tally and the
\* order rest on)
RepoSummary(repo) == [name |-> repo.name, language |-> repo.language]

\* lines 40-51: the loop over the fetched repositories
RECURSIVE NonForkRepos(_)
NonForkRepos(fetched) ==
  IF fetched = <<>> THEN <<>>
  ELSE (IF ~Head(fetched).fork THEN <<RepoSummary(Head(fetched))>> ELSE <<>>)
         \o NonForkRepos(Tail(fetched))

\* truth value of repo['language']
LangTruthy(lang) == ~IsNone(lang) /\ Val(lang) # ""

\* TallyStep with the count set to 1 instead of incremented
TallyStep_sets_one(d, lang) ==
  IF ~LangTruthy(lang) THEN d
  ELSE [k \in DOMAIN d \cup {Val(lang)} |->
          IF k = Val(lang) THEN 1 ELSE d[k]]

\* lines 69-71: one repository counted in languages_used
TallyStep(d, lang) ==
  IF ~LangTruthy(lang) THEN d
  ELSE [k \in DOMAIN d \cup {Val(lang)} |->
          IF k = Val(lang)
            THEN (IF k \in DOMAIN d THEN d[k] ELSE 0) + 1
            ELSE d[k]]

\* lines 67-71: the loop over repos, started with d
RECURSIVE LanguageTally(_, _)
LanguageTally(d, repos) ==
  IF repos = <<>> THEN d
  ELSE LanguageTally(TallyStep(d, Head(repos).language), Tail(repos))

\* the process memory outside the adapters, as it is at the first start
IdleMemory ==
  /\ files = EmptyDict
  /\ dirs = {}
  /\ ledger = None
  /\ now = StartDay
  /\ run = 1
  /\ args = [force_reanalysis |-> FALSE, top_n |-> 0]
  /\ cutoff = 0
  /\ shortlisted = <<>>
  /\ processed_users = {}
  /\ src = 1
  /\ user = NoUser
  /\ linkedin_data = None
  /\ payload = None
  /\ analysis = None
  /\ report_path = None
  /\ new_report_path = None
  /\ result = None
  /\ exit_reason = "running"
  /\ offers = 0
  /\ invoked = {}
  /\ llm_failed = {}
  /\ written = {}
  /\ routed = EmptyDict

\* lines 20-38: the user is fetched and the profile built (with the link
\* get_linkedin_from_github found, or None); any failure returns {}
GdGetUser ==
  /\ pc = "gd_request"
  /\ \/ /\ github_data' = EmptyDict
        /\ pc' = "gd_returned"
        /\ UNCHANGED user_repos
     \/ /\ \E l \in {None, Some(LinkedInUrl)} :
             github_data' = [profile |-> [linkedin_url |-> l]]
        /\ user_repos' \in RepoLists
        /\ pc' = "gd_repos"
  /\ UNCHANGED <<disk, now, run, mainVars, user, linkedin_data, payload,
                 analysis, report_path, new_report_path, result,
                 exit_reason, history, linkVars, liVars>>

\* lines 39-79: the repositories are listed, the languages tallied and the
\* data returned; any failure returns {}
GdBuild ==
  /\ pc = "gd_repos"
  /\ \/ github_data' = EmptyDict
     \/ LET repos == NonForkRepos(user_repos)
        IN github_data' =
             [profile |-> github_data.profile,
              repositories |-> repos,
              contribution_stats |->
                [languages_used |-> LanguageTally(EmptyDict, repos)]]
  /\ pc' = "gd_returned"
  /\ UNCHANGED <<disk, now, run, mainVars, user, linkedin_data, payload,
                 analysis, report_path, new_report_path, result,
                 exit_reason, history, adapterVars>>

InitGitHubData ==
  /\ pc = "gd_request"
  /\ github_data = EmptyDict
  /\ IdleMemory
  /\ NoSearch

NextGitHubData ==
  \/ GdGetUser
  \/ GdBuild

SpecGitHubData == InitGitHubData /\ [][NextGitHubData]_vars

\* ------------------------------------------------- the LinkedIn adapter
\* LinkedinBrowserAgent.get_profile_data and _parse_result
\* (src/utils/linkedin_browser_agent.py): a browsing agent is sent to the
\* profile URL and the last JSON text of its steps is parsed.

\* how many steps the history of an agent run may have
MaxSteps == 2

\* a second profile, and the address of the login wall
OtherProfileUrl ==
  <<"h","t","t","p","s",":","/","/","l","i","n","k","e","d","i","n",".","c",
    "o","m","/","i","n","/","b","o">>
AuthWallUrl ==
  <<"h","t","t","p","s",":","/","/","w","w","w",".","l","i","n","k","e","d",
    "i","n",".","c","o","m","/","a","u","t","h","w","a","l","l">>

\* the profile URLs the adapter is called with
ProfileUrls == {LinkedInUrl, OtherProfileUrl}

\* where the browser may be when the agent run ends: the redirects of the
\* site and the steps of the agent decide it
Addresses(requested) == {requested, OtherProfileUrl, AuthWallUrl}

\* texts a step of the agent may carry as its result
T_profile_json == <<"{","\"","N","a","m","e","\"",":","\"","A","l","\"","}">>
T_empty_json == <<" ","{","}">>
T_broken_json == <<"{","\"","N","a","m","e","\"">>
T_plain == <<"d","o","n","e">>

AgentTexts == {T_profile_json, T_empty_json, T_broken_json, T_plain}

\* step.result: None when it is no str, else the text
StepResults == {None} \cup {Some(t) : t \in AgentTexts}

Histories == UNION {[1..n -> StepResults] : n \in 0..MaxSteps}

\* the characters of a JSON string without escapes
IsPlainStringBody(s) == \A i \in 1..Len(s) : s[i] \notin {"\"", "\\"}

\* json.loads on the texts of the agent: the empty object, an object of one
\* member with a string value, or None for the JSONDecodeError. A parsed
\* object is a function from its keys to its values.
JsonLoads(text) ==
  LET t == Strip(text)
      n == Len(t)
  IN IF t = <<"{", "}">> THEN Some(EmptyDict)
     ELSE IF /\ n >= 7
             /\ t[1] = "{" /\ t[2] = "\"" /\ t[n] = "}" /\ t[n - 1] = "\""
             /\ \E i \in 3..(n - 4) :
                  /\ SubSeq(t, i, i + 2) = <<"\"", ":", "\"">>
                  /\ IsPlainStringBody(SubSeq(t, 3, i - 1))
                  /\ IsPlainStringBody(SubSeq(t, i + 3, n - 2))
       THEN LET i == CHOOSE j \in 3..(n - 4) :
                       /\ SubSeq(t, j, j + 2) = <<"\"", ":", "\"">>
                       /\ IsPlainStringBody(SubSeq(t, 3, j - 1))
                       /\ IsPlainStringBody(SubSeq(t, j + 3, n - 2))
            IN Some([k \in {SubSeq(t, 3, i - 1)} |-> SubSeq(t, i + 3, n - 2)])
     ELSE None

\* line 114: the step carries a str that starts, stripped, with a brace
IsJsonCandidate(step) ==
  ~IsNone(step) /\ StartsWith(Strip(Val(step)), <<"{">>)

\* lines 113-126: the steps are tried from the last to the first; a text
\* that does not parse is passed over
RECURSIVE LastParsed(_, _)
LastParsed(steps, i) ==
  IF i = 0 THEN None
  ELSE IF IsJsonCandidate(steps[i])
          /\ ~IsNone(JsonLoads(Val(steps[i])))
    THEN Some(i)
  ELSE LastParsed(steps, i - 1)

\* _parse_result, lines 99-133: the structured result, stamped with the
\* URL that was requested
parse_result(steps, requested) ==
  LET found == LastParsed(steps, Len(steps))
  IN IF ~IsNone(found)
       THEN [profile_url |-> requested,
             extraction_method |-> "browser_automation",
             raw_result |-> Val(steps[Val(found)]),
             parsed_data |-> Val(JsonLoads(Val(steps[Val(found)])))]
       ELSE [profile_url |-> requested,
             extraction_method |-> "browser_automation",
             raw_result |-> <<>>,
             parsed_data |-> EmptyDict]

\* get_profile_data, lines 58-90 and 93-97: the agent is run on the task;
\* an exception or a falsy result returns None
LiRun ==
  /\ pc = "li_request"
  /\ \/ /\ linkedin_result' = None
        /\ pc' = "li_returned"
        /\ UNCHANGED <<current_url, agent_history>>
     \/ /\ current_url' \in Addresses(profile_url)
        /\ \/ /\ agent_history' = None
              /\ linkedin_result' = None
              /\ pc' = "li_returned"
           \/ /\ agent_history' \in {Some(h) : h \in Histories}
              /\ pc' = "li_parse"
              /\ UNCHANGED linkedin_result
  /\ UNCHANGED <<disk, now, run, mainVars, locals, exit_reason, history,
                 linkVars, user_repos, profile_url>>

\* get_profile_data, lines 90-93: the result is parsed and returned
LiParse ==
  /\ pc = "li_parse"
  /\ linkedin_result' = Some(parse_result(Val(agent_history), profile_url))
  /\ pc' = "li_returned"
  /\ UNCHANGED <<disk, now, run, mainVars, locals, exit_reason, history,
                 linkVars, user_repos, profile_url, current_url,
                 agent_history>>

InitLinkedIn ==
  /\ pc = "li_request"
  /\ profile_url \in ProfileUrls
  /\ current_url = <<>>
  /\ agent_history = None
  /\ linkedin_result = None
  /\ page = NoPage
  /\ text_to_search = <<>>
  /\ linkedin_url = None
  /\ user_repos = <<>>
  /\ github_data = EmptyDict
  /\ IdleMemory

NextLinkedIn ==
  \/ LiRun
  \/ LiParse

SpecLinkedIn == InitLinkedIn /\ [][NextLinkedIn]_vars

\* ---------------------------------------------------------------- claims
\* the URL is a line of the processed ledger
LedgerHasLine(url) ==
  /\ ~IsNone(ledger)
  /\ LET text == Val(ledger)
         line == url \o <<NL>>
     IN \E i \in 1..Len(text) :
          /\ i = 1 \/ text[i - 1] = NL
          /\ MatchAt(line, text, i)

\* the path lies in one of the three bucket directories
InBucket(path) == Len(path) > 2 /\ SubSeq(path, 1, 2) \in BucketDirs

\* the URL of the candidate analyze_user is working on
CurrentUrl == HtmlUrl(user.login)

C2_LedgerAppendIsLast ==
  [][/\ (ledger' # ledger
         => /\ pc = "au_mark"
            /\ pc' = "returned"
            /\ ledger' = Some((IF IsNone(ledger) THEN <<>> ELSE Val(ledger))
                              \o CurrentUrl \o <<NL>>)
            /\ CurrentUrl \in written
            /\ ~IsNone(new_report_path)
            /\ Val(new_report_path) \in DOMAIN files
            /\ files[Val(new_report_path)].content = Val(analysis))
     /\ (pc # "returned" /\ pc' = "returned" /\ "llm" \in invoked
         => ((ledger' # ledger)
             <=> (~IsNone(analysis) /\ Len(Val(analysis)) > 0)))
     /\ written \subseteq written'
     /\ (ledger' # ledger
         => \A l \in Logins :
              (LedgerHasLine(HtmlUrl(l)))' => HtmlUrl(l) \in written')]_vars
  /\ [](IsNone(ledger) \/ written # {})

C2_Witness ==
  /\ pc = "returned"
  /\ ~IsNone(result)
  /\ LedgerHasLine(CurrentUrl)
  /\ CurrentUrl \in written
  /\ Val(new_report_path) \in DOMAIN files

\* what C3 says of the step that follows an absent LLM result: no report
\* file, nothing moved, no ledger append, None returned, the run goes on
C3_AbsentResultStep ==
  (pc = "au_report" /\ IsNone(analysis) /\ pc' # "exited")
  => /\ pc' = "returned"
     /\ IsNone(result')
     /\ exit_reason' = "running"
     /\ UNCHANGED <<files, dirs, ledger>>

\* C3 as stated: after an absent LLM result nothing is written, moved or
\* appended, and the candidate is evaluated again (the adapters are
\* invoked) the next time it is offered to analyze_user.
C3_RetriedWheneverOffered ==
  [][/\ C3_AbsentResultStep
     /\ (pc = "au_check" /\ CurrentUrl \in llm_failed /\ pc' # "exited"
         => pc' = "ac_github")]_vars

\* C3 as amended: after an absent LLM result nothing is written, moved or
\* appended, and the candidate is evaluated again the next time it is
\* offered, provided it passes that run's recency gate and its URL is not
\* in the ledger from an earlier evaluation (or reanalysis is forced).
C3_RetriedWhenEligible ==
  [][/\ C3_AbsentResultStep
     /\ (/\ pc = "au_check"
         /\ CurrentUrl \in llm_failed
         /\ user.updated_at >= cutoff
         /\ (args.force_reanalysis \/ ~LedgerHasLine(CurrentUrl))
         /\ pc' # "exited"
         => pc' = "ac_github")]_vars

C3_Witness ==
  /\ pc = "ac_github"
  /\ CurrentUrl \in llm_failed
  /\ IsNone(ledger)
  /\ files = EmptyDict

\* C4: when the GitHub adapter returns the empty result, or the LinkedIn
\* adapter an absent one, analyze_candidate goes on to compose the payload
\* and call the LLM; the failure of one source never aborts the evaluation
\* or the run.
C4_SourceFailureTolerated ==
  [][/\ (pc = "ac_github" /\ "github" \in invoked' /\ ~DictTruthy(github_data')
         => pc' = "ac_compose" /\ exit_reason' = "running")
     /\ (pc = "ac_linkedin" /\ "linkedin" \in invoked' /\ IsNone(linkedin_data')
         => pc' = "ac_compose" /\ exit_reason' = "running")]_vars

\* C6: the reports of two different candidates routed to the same bucket
\* are stored apart and are both still present.
C6_ReportsKeptApart ==
  \A u1, u2 \in DOMAIN routed :
    (u1 # u2 /\ InBucket(routed[u1]) /\ InBucket(routed[u2]))
    => /\ routed[u1] # routed[u2]
       /\ routed[u1] \in DOMAIN files
       /\ routed[u2] \in DOMAIN files

\* C7: when analyze_user has filed a report that carries a GitHub label
\* line in the shortlist or strongly_shortlist bucket, the shortlist main
\* recomputes right after holds an entry for that report.
C7_NewReportInProjection ==
  [][(/\ pc = "returned"
      /\ pc' = "loop"
      /\ ~IsNone(result)
      /\ SubSeq(Val(new_report_path), 1, 2)
           \in {CANDIDATES_DIR \o <<S_shortlist>>,
                CANDIDATES_DIR \o <<S_strongly_shortlist>>}
      /\ Contains(files[Val(new_report_path)].content, L_GitHub))
     => \E i \in 1..Len(shortlisted') :
          shortlisted'[i].report_path = Val(new_report_path)]_vars

\* the bucket the spec assigns to a tier
TierBucket(t) ==
  IF t = Tier_StronglyShortlist THEN S_strongly_shortlist
  ELSE IF t = Tier_Shortlist THEN S_shortlist
  ELSE S_reject

\* C5: a report whose recommendation line carries one of the five tiers, in
\* any letter case, is routed to strongly_shortlist (Strongly Shortlist),
\* shortlist (Shortlist) or reject (the other three), and the stored text is
\* the text the LLM produced.
C5_TierRouting ==
  pc \in {"au_mark", "returned"} /\ ~IsNone(new_report_path)
  => \A t \in Tiers : \A v \in CaseVariants(t) :
       Val(analysis) = RecLine(v) \o GitHubLine(HtmlUrl(<<"a","l">>))
       => /\ SubSeq(Val(new_report_path), 1, 2)
               = CANDIDATES_DIR \o <<TierBucket(t)>>
          /\ Val(new_report_path) \in DOMAIN files
          /\ files[Val(new_report_path)].content = Val(analysis)

C5_Witness ==
  /\ pc = "au_mark"
  /\ Val(analysis) = RecLine(Upper(Tier_StronglyShortlist))
                       \o GitHubLine(HtmlUrl(<<"a","l">>))
  /\ SubSeq(Val(new_report_path), 1, 2)
       = CANDIDATES_DIR \o <<S_strongly_shortlist>>

\* the report files stored in the two shortlist buckets
ShortlistReports ==
  Glob(files, CANDIDATES_DIR \o <<S_shortlist>>)
    \cup Glob(files, CANDIDATES_DIR \o <<S_strongly_shortlist>>)

\* the stored report has a line with this label
HasLabel(p, label) == Contains(files[p].content, label)

\* C8: every report stored in the two shortlist buckets (and sharing its
\* GitHub link with no other) has an entry in the projection, in which each
\* of name, location, linkedin and github without a label line is the
\* default marker; a report with only a Strongly Shortlist recommendation
\* line has an entry with the four defaults.
C8_EveryReportProjected ==
  pc = "loop"
  => \A p \in ShortlistReports :
       (\A q \in ShortlistReports \ {p} :
          ~(HasLabel(p, L_GitHub) /\ HasLabel(q, L_GitHub)
            /\ CandidateKey(files, p) = CandidateKey(files, q)))
       => \E i \in 1..Len(shortlisted) :
            /\ shortlisted[i].report_path = p
            /\ (~HasLabel(p, L_Name) => shortlisted[i].name = D_Unknown)
            /\ (~HasLabel(p, L_Location)
                  => shortlisted[i].location = D_Unable)
            /\ (~HasLabel(p, L_LinkedIn)
                  => shortlisted[i].linkedin = D_Unable)
            /\ (~HasLabel(p, L_GitHub) => shortlisted[i].github = D_Unknown)

\* C9: the projection is in descending order of modification time, whatever
\* buckets its reports are stored in.
C9_DescendingByMtime ==
  \A i, j \in 1..Len(shortlisted) :
    i < j => /\ shortlisted[i].last_updated >= shortlisted[j].last_updated
             /\ shortlisted[i].last_updated
                  = files[shortlisted[i].report_path].mtime

C9_Witness ==
  /\ pc = "loop"
  /\ Len(shortlisted) = 3
  /\ shortlisted[1].last_updated > shortlisted[2].last_updated
  /\ shortlisted[2].last_updated > shortlisted[3].last_updated
  /\ shortlisted[1].report_path[2] = S_strongly_shortlist
  /\ shortlisted[2].report_path[2] = S_shortlist

\* C10: the projection holds at most one entry per GitHub link, however
\* many stored reports carry that link.
C10_OneEntryPerLink ==
  \A i, j \in 1..Len(shortlisted) :
    i # j => shortlisted[i].github # shortlisted[j].github

C10_Witness ==
  /\ pc = "loop"
  /\ \E p, q \in ShortlistReports :
       /\ p # q
       /\ p[2] # q[2]
       /\ HasLabel(p, L_GitHub)
       /\ CandidateKey(files, p) = CandidateKey(files, q)
       /\ Cardinality({i \in 1..Len(shortlisted) :
                         Some(shortlisted[i].github) = CandidateKey(files, p)})
            = 1

GateRejects ==
  /\ pc = "au_check"
  /\ args.force_reanalysis \/ ~is_candidate_processed(CurrentUrl, ledger)
  /\ user.updated_at < cutoff
  /\ pc' # "exited"

\* what C12 says of that step: None returned, no adapter invoked, no report
\* written, no ledger entry added
GateRejectionStep ==
  /\ pc' = "returned"
  /\ IsNone(result')
  /\ invoked' = {}
  /\ UNCHANGED <<files, dirs, ledger, written>>

\* C12 as stated: a candidate rejected by the recency gate is skipped with
\* no adapter invoked, no report written and no ledger entry added, and
\* after the skip it is not treated as processed.
C12_GateSkipNeverProcessed ==
  [][GateRejects
     => /\ GateRejectionStep
        /\ ~is_candidate_processed(CurrentUrl, ledger')]_vars

\* C12 as amended: a candidate rejected by the recency gate is skipped with
\* no adapter invoked, no report written and no ledger entry added; the
\* skip leaves it treated as processed exactly if it was before, which is
\* never the case without forced reanalysis.
C12_GateSkipLeavesNoMark ==
  [][GateRejects
     => /\ GateRejectionStep
        /\ is_candidate_processed(CurrentUrl, ledger')
             <=> is_candidate_processed(CurrentUrl, ledger)
        /\ ~args.force_reanalysis
             => ~is_candidate_processed(CurrentUrl, ledger')]_vars

C12_Witness ==
  /\ pc = "returned"
  /\ user.login \in Logins
  /\ user.updated_at < cutoff
  /\ ~args.force_reanalysis
  /\ invoked = {}
  /\ IsNone(result)
  /\ ~is_candidate_processed(CurrentUrl, ledger)

\* the recency gate is reached: the ledger check of line 80 let the
\* candidate pass
GateReached ==
  /\ pc = "au_check"
  /\ args.force_reanalysis \/ ~is_candidate_processed(CurrentUrl, ledger)

\* C13: during a run the recency decision depends on the account's
\* timestamp alone: the cutoff it is compared with does not change while the
\* process lives, however much time passes, so equal timestamps get equal
\* decisions; a timestamp equal to the cutoff (or later) is admitted to the
\* adapters, an earlier one is rejected.
C13_GateFixedDuringRun ==
  [][/\ (GateReached /\ pc' # "exited"
         => /\ (user.updated_at >= cutoff => pc' = "ac_github")
            /\ (user.updated_at <= cutoff - 1
                  => pc' = "returned" /\ invoked' = {}))
     /\ (pc \notin {"import", "exited"} /\ pc' # "exited"
         => cutoff' = cutoff)]_vars

\* a second account with the timestamp of one evaluated earlier in the same
\* run, exactly on the cutoff, is admitted after time has passed
C13_Witness ==
  /\ pc = "ac_github"
  /\ run = 1
  /\ user.login = <<"b","o">>
  /\ user.updated_at = cutoff
  /\ UpdatedAt(<<"a","l">>) = user.updated_at
  /\ HtmlUrl(<<"a","l">>) \in written \cup llm_failed
  /\ now > cutoff + CUTOFF_DAYS

\* C14 as stated: a candidate is passed to the adapters only if its
\* timestamp lies within CUTOFF_DAYS days of the time of its evaluation.
C14_WindowFromEvaluationTime ==
  [][pc = "au_check" /\ pc' = "ac_github"
     => user.updated_at >= now - CUTOFF_DAYS]_vars

\* C14 as amended: a candidate is passed to the adapters only if its
\* timestamp lies within CUTOFF_DAYS days of the time the process started:
\* the cutoff is set from the clock when the module is loaded and stays.
C14_WindowFromProcessStart ==
  [][/\ (pc = "import" /\ pc' = "main" => cutoff' = now - CUTOFF_DAYS)
     /\ (pc \notin {"import", "exited"} /\ pc' # "exited"
         => cutoff' = cutoff /\ now' >= now)
     /\ (pc = "au_check" /\ pc' = "ac_github"
         => user.updated_at >= cutoff)]_vars

\* a candidate admitted although its timestamp is outside the window
\* measured from the time of its evaluation
C14_Witness ==
  /\ pc = "ac_github"
  /\ user.updated_at >= cutoff
  /\ user.updated_at < now - CUTOFF_DAYS

\* C15: in the discovery loop, once the shortlist holds at least top_n
\* entries it keeps them and no candidate is passed to analyze_user any
\* more, in the current source or a later one, until the process ends.
C15_TargetStopsDiscovery ==
  [][(pc \in {"loop", "end"} /\ Len(shortlisted) >= args.top_n
      /\ pc' # "exited")
     => /\ pc' \in {"loop", "end"}
        /\ Len(shortlisted') >= args'.top_n
        /\ user' = NoUser
        /\ invoked' = {}]_vars

\* both sources yielded a stargazer after the target was met and neither was
\* passed on
C15_Witness ==
  /\ pc = "end"
  /\ run = 1
  /\ src = Len(INFLUENCER_REPOS)
  /\ offers = Len(INFLUENCER_REPOS)
  /\ Len(shortlisted) >= args.top_n
  /\ IsNone(ledger)
  /\ llm_failed = {}

\* main reaches line 161 and ends there
MainEnds == pc = "end" /\ pc' = "exited" /\ exit_reason' # "killed"

\* C16 as stated: when main ends with the target not met (every source was
\* exhausted) and no candidate has been successfully evaluated (the ledger
\* was never written), it reports that no suitable candidates were found
\* and exits with a failure; when the target is met it prints the shortlist.
C16_NothingNewIsFailure ==
  [][MainEnds
     => /\ (Len(shortlisted) < args.top_n /\ IsNone(ledger)
             => exit_reason' = "no_candidates")
        /\ (Len(shortlisted) >= args.top_n
             => exit_reason' = "printed")]_vars

\* C16 as amended: main ends with the failure report exactly when the
\* shortlist is empty, whether or not anything new was evaluated; otherwise
\* (a target of at least one entry met, or the sources exhausted with a
\* shorter shortlist) it prints the shortlist.
C16_EmptyShortlistIsFailure ==
  [][MainEnds
     => /\ (shortlisted = <<>> <=> exit_reason' = "no_candidates")
        /\ (shortlisted # <<>> <=> exit_reason' = "printed")
        /\ (args.top_n >= 1 /\ Len(shortlisted) >= args.top_n
             => exit_reason' = "printed")]_vars

\* the sources were exhausted, nothing was evaluated, and the stored
\* shortlist, shorter than the target, was printed
C16_Witness ==
  /\ pc = "exited"
  /\ exit_reason = "printed"
  /\ shortlisted # <<>>
  /\ Len(shortlisted) < args.top_n
  /\ IsNone(ledger)
  /\ written = {}

\* the exits sys.exit(1) makes after an unexpected error
ErrorExits == {"fatal_error", "mark_error"}

\* C17: when the ledger append fails (the step that should append leaves
\* the ledger as it was), or the evaluation of a candidate raises (the
\* GitHub adapter's empty result makes analyze_candidate raise), the process
\* ends at once with a failure exit; after such an exit nothing happens but
\* the start of a new process: no further candidate is offered or
\* evaluated and the loop does not go on.
C17_ErrorsAreFatal ==
  [][/\ (pc = "au_mark" /\ ledger' = ledger /\ exit_reason' # "killed"
         => pc' = "exited" /\ exit_reason' = "mark_error")
     /\ (pc = "ac_github" /\ "github" \in invoked'
           /\ ~DictTruthy(github_data')
         => pc' = "exited" /\ exit_reason' = "fatal_error")
     /\ (exit_reason \in ErrorExits
         => /\ pc = "exited"
            /\ pc' = "exited" \/ (pc' = "import" /\ run' = run + 1)
            /\ UNCHANGED <<files, dirs, ledger, offers>>)]_vars

\* the ledger append failed for a candidate whose report had been written
\* and the process has ended with a failure
C17_Witness ==
  /\ pc = "exited"
  /\ exit_reason = "mark_error"
  /\ written # {}
  /\ IsNone(ledger)
  /\ offers < MaxOffers

\* the text a is the beginning of the text b
IsPrefix(a, b) == Len(a) <= Len(b) /\ SubSeq(b, 1, Len(a)) = a

\* C18: the ledger is append-only: whatever step is taken (an evaluation,
\* forced or not, a skip, a failure, a kill, a new run), a ledger that
\* exists still exists afterwards and its old content is the beginning of
\* its new content.
C18_LedgerAppendOnly ==
  [][~IsNone(ledger)
     => /\ ~IsNone(ledger')
        /\ IsPrefix(Val(ledger), Val(ledger'))]_vars

\* a forced reanalysis has appended to a ledger that already held the URL
C18_Witness ==
  /\ pc = "returned"
  /\ args.force_reanalysis
  /\ ~IsNone(result)
  /\ Len(FileLines(Val(ledger))) = 2
  /\ FileLines(Val(ledger))[1] = FileLines(Val(ledger))[2]

\* the forms of the four kinds, with or without a closing slash
FullForms == UNION {{FullForm(h), WwwForm(h), HttpForm(h)} : h \in Handles}
BareForms == UNION {{BareForm(h), MixedCaseForm(h)} : h \in Handles}
InForms == {InForm(h) : h \in Handles}
AtForms == {AtForm(h) : h \in Handles}

\* the priority of the form a searched part is written in: 1 full URL,
\* 2 bare domain, 3 in/handle, 4 @handle, 5 no link at all
PartClass(p) ==
  LET t == RStrip(p, "/")
  IN IF t \in FullForms THEN 1
     ELSE IF t \in BareForms THEN 2
     ELSE IF t \in InForms THEN 3
     ELSE IF t \in AtForms THEN 4
     ELSE 5

\* C19: the result comes from the searched part written in the form of
\* highest priority (the first such part when there are several), whatever
\* forms of lower priority stand before it in the text; without any form
\* the result is None.
C19_PatternPriority ==
  pc = "gl_returned" /\ page # NoPage
  => LET parts == SearchedParts(page)
         best  == {k \in 1..Len(parts) :
                     /\ PartClass(parts[k]) < 5
                     /\ \A j \in 1..Len(parts) :
                          \/ PartClass(parts[j]) > PartClass(parts[k])
                          \/ PartClass(parts[j]) = PartClass(parts[k])
                             /\ j >= k}
     IN IF best = {} THEN IsNone(linkedin_url)
        ELSE /\ ~IsNone(linkedin_url)
             /\ \A k \in best :
                  Val(linkedin_url) = NormalizeLink(parts[k])

\* a full URL among the links wins over the @handle of the bio before it
C19_Witness ==
  /\ pc = "gl_returned"
  /\ page.bio = Some(AtForm(<<"b","o">>))
  /\ page.hrefs = <<FullForm(<<"a","l">>)>>
  /\ linkedin_url = Some(FullForm(<<"a","l">>))

\* the handle a form is written for
HandleOf(p) ==
  IF p[1] = "@" THEN Tail(p) ELSE LastField(RStrip(p, "/"), "/")

\* C20: when the searched text is a single part written in one of the four
\* forms, the result is https://linkedin.com/in/<handle>, the same for the
\* four forms of a handle; and no result ends with a slash.
C20_OneCanonicalUrl ==
  pc = "gl_returned" /\ page # NoPage
  => LET parts == SearchedParts(page)
     IN /\ (Len(parts) = 1 /\ PartClass(parts[1]) < 5
             => linkedin_url = Some(P_linkedin_in \o HandleOf(parts[1])))
        /\ (~IsNone(linkedin_url)
             => Val(linkedin_url)[Len(Val(linkedin_url))] # "/")

\* the non-empty languages a repository may carry
LanguageNames == {Val(l) : l \in {m \in Languages : LangTruthy(m)}}

\* the tally of a language in a result (0 without an entry)
TallyOf(data, L) ==
  LET lu == data.contribution_stats.languages_used
  IN IF L \in DOMAIN lu THEN lu[L] ELSE 0

\* C21: in a result that carries data, the k-th listed repository is the
\* k-th fetched repository that is no fork, no other is listed, the tally
\* of every language is the number of listed repositories of that language,
\* and nothing is tallied for the empty or absent language.
C21_ReposAndLanguageTally ==
  pc = "gd_returned" /\ DictTruthy(github_data)
  => LET repos   == github_data.repositories
         nonfork == {i \in 1..Len(user_repos) : ~user_repos[i].fork}
         rank(i) == Cardinality({j \in nonfork : j <= i})
     IN /\ Len(repos) = Cardinality(nonfork)
        /\ \A i \in nonfork :
             /\ repos[rank(i)].name = user_repos[i].name
             /\ repos[rank(i)].language = user_repos[i].language
        /\ \A L \in LanguageNames :
             TallyOf(github_data, L)
               = Cardinality({k \in 1..Len(repos) :
                                repos[k].language = Some(L)})
        /\ DOMAIN github_data.contribution_stats.languages_used
             \subseteq LanguageNames
        /\ \A L \in DOMAIN github_data.contribution_stats.languages_used :
             github_data.contribution_stats.languages_used[L] >= 1

\* a fork is left out, two listed repositories share a language and one
\* listed repository has the empty language
C21_Witness ==
  /\ pc = "gd_returned"
  /\ DictTruthy(github_data)
  /\ Len(user_repos) = 3
  /\ user_repos[1].fork
  /\ Len(github_data.repositories) = 2
  /\ github_data.repositories[1].language = Some("")
  /\ github_data.repositories[2].language = Some("Go")
  /\ TallyOf(github_data, "Go") = 1

\* analyze_candidate has composed the prompt of the current candidate
PayloadComposed == pc = "ac_llm"

\* no LinkedIn evidence: no URL discovered, an absent result, or an empty
\* parsed object
NoLinkedInEvidence ==
  \/ IsNone(github_data.profile.linkedin_url)
  \/ IsNone(linkedin_result)
  \/ ~DictTruthy(Val(linkedin_result).parsed_data)

\* C22: whenever the prompt is composed without LinkedIn evidence, its
\* LinkedIn field is the text "Not provided"; and the LinkedIn adapter is
\* invoked only in a call whose GitHub data carry a LinkedIn URL.
C22_NotProvidedWithoutEvidence ==
  /\ [](PayloadComposed /\ NoLinkedInEvidence
         => Val(payload).LinkedIn = [text |-> NotProvided])
  /\ [][("linkedin" \in invoked' /\ "linkedin" \notin invoked)
          => /\ DictTruthy(github_data)
             /\ ~IsNone(github_data.profile.linkedin_url)]_vars

\* a URL was discovered, the adapter was invoked and returned the raw-text
\* fallback, and the prompt says "Not provided"
C22_Witness ==
  /\ PayloadComposed
  /\ ~IsNone(github_data.profile.linkedin_url)
  /\ "linkedin" \in invoked
  /\ ~IsNone(linkedin_result)
  /\ ~DictTruthy(Val(linkedin_result).parsed_data)
  /\ Val(payload).LinkedIn = [text |-> NotProvided]

\* the adapter has returned data although the browser ended elsewhere
DataFromOtherAddress ==
  /\ pc = "li_returned"
  /\ current_url # profile_url
  /\ ~IsNone(linkedin_result)

\* C23: when the address the browser resolved to differs from the requested
\* profile URL, the adapter returns None; it returns no data extracted
\* from a different address.
C23_DifferentAddressReturnsNone == ~DataFromOtherAddress

\* C24: within one run of main no URL is evaluated again once analyze_user
\* returned a result for it, with or without --force-reanalysis: a call that
\* wrote a report and returns, returns a result for its URL; main puts the
\* URL of every result into processed_users; processed_users loses nothing
\* while the run lasts; and neither a call of analyze_user nor the writing
\* of a report is for a URL of processed_users.
C24_AtMostOneReportPerRun ==
  /\ [](pc = "returned" /\ ~IsNone(report_path)
         => ~IsNone(result) /\ Val(result).url = CurrentUrl)
  /\ [][/\ (pc = "returned" /\ pc' = "loop" /\ ~IsNone(result))
            => Val(result).url \in processed_users'
        /\ (run' = run /\ pc' # "exited")
            => processed_users \subseteq processed_users'
        /\ (pc = "loop" /\ pc' = "au_check")
            => HtmlUrl(user'.login) \notin processed_users
        /\ (pc = "au_report" /\ pc' = "au_move")
            => CurrentUrl \notin processed_users]_vars

\* in the first run, under --force-reanalysis, a candidate was evaluated and
\* filed, its URL is in processed_users, and the loop went on to the last
\* stargazer without the target being met
C24_Witness ==
  /\ pc = "loop"
  /\ run = 1
  /\ args.force_reanalysis
  /\ HtmlUrl(<<"a","l">>) \in processed_users
  /\ HtmlUrl(<<"a","l">>) \in written
  /\ is_candidate_processed(HtmlUrl(<<"a","l">>), ledger)
  /\ Len(shortlisted) < args.top_n
  /\ offers = MaxOffers

====
